---- MODULE Spec2Model ----
(***************************************************************************)
(* Model of the data-deals explorer page (src/app/page.tsx): the deal     *)
(* list, the Filter State, the Selection Set, the search query, the       *)
(* filter engine applyFilters, the value-step snap functions and the      *)
(* handlers that change the page state; of the effects of its children    *)
(* (src/components/NetworkGraph.tsx, src/components/Filters.tsx) and of   *)
(* the moderation endpoint (src/app/api/suggestions/[id]/route.ts).       *)
(*                                                                         *)
(* Representation.                                                         *)
(*  - A JavaScript string is a sequence of one-character strings, so that *)
(*    toLowerCase, trim and includes are computed character by character. *)
(*  - A nullable number is <<>> (null) or <<n>>.                          *)
(*  - A JavaScript array is a sequence; a Set is a set.                   *)
(*  - A deal amount in millions is a real number v / 10^6 or v / 10^12.   *)
(*    It is only ever compared with integer filter bounds, so it is kept  *)
(*    as the pair [lo, hi] of its floor and its ceiling: r >= f iff       *)
(*    lo >= f and r <= f iff hi <= f for every integer f.                 *)
(*  - The argument of the snap functions is kept in halves (value2 is     *)
(*    twice the value), which represents 37.5, 112.5, ... exactly.        *)
(***************************************************************************)
EXTENDS Integers, Sequences, FiniteSets, TLC

VARIABLES
    deals,          \* page.tsx:27  useState<Deal[]>([])
    filteredDeals,  \* page.tsx:28  useState<Deal[]>([])
    selectedNodes,  \* page.tsx:29  useState<Set<string>>(new Set())
    searchQuery,    \* page.tsx:30  useState('')
    filters,        \* page.tsx:32  useState({yearMin, ..., codes})
    stats,          \* page.tsx:40  useState<any>(null): <<>> or <<stats>>
    db,             \* the server's Deal table (prisma.deal), in row order
    dealsFetch,     \* page.tsx:66  the /api/deals promise: "pending" | "done"
    statsFetch,     \* page.tsx:73  the /api/stats promise: "pending" | "done"
    effectPending,  \* page.tsx:88  the applyFilters effect is scheduled
    lastToggle,     \* history of the last onNodeToggle calls (page.tsx:282)
    lastOp,         \* history: the last handler called and what followed it
    graph,          \* NetworkGraph.tsx:27-29  what the component's refs hold
    localFilters,   \* Filters.tsx:20  useState(filters)
    localIsFilters, \* localFilters and filters are one and the same object
    isInternalUpdateRef,  \* Filters.tsx:22  useRef(false)
    draggingSlider, \* Filters.tsx:21  useState(null): <<>> or <<name>>
    changed,        \* the hook states the last commit changed ("mount": the
                    \* children were mounted), whose effects have not yet run
    suggestions,    \* the Suggestion table (prisma.suggestion), by id
    auditLog,       \* the AuditLog table (prisma.auditLog), in row order
    dealsJson,      \* the array stored in data/deals.json
    lastRequest,    \* history: the last POST /api/suggestions/[id] and its answer
    snapValue,      \* argument of the snap functions, in halves
    snapResult      \* <<>> or <<[page, slider]>>: the values they returned

vars == <<deals, filteredDeals, selectedNodes, searchQuery, filters, stats, db,
          dealsFetch, statsFetch, effectPending, lastToggle, lastOp, graph,
          localFilters, localIsFilters, isInternalUpdateRef, draggingSlider,
          changed, suggestions, auditLog, dealsJson, lastRequest,
          snapValue, snapResult>>

pageVars == <<deals, filteredDeals, selectedNodes, searchQuery, filters, stats, db,
              dealsFetch, statsFetch, effectPending, lastToggle, lastOp,
              graph, localFilters, localIsFilters, isInternalUpdateRef,
              draggingSlider, changed>>

filtersVars ==
    <<localFilters, localIsFilters, isInternalUpdateRef, draggingSlider>>

snapVars == <<snapValue, snapResult>>

adminVars == <<suggestions, auditLog, dealsJson, lastRequest>>

----------------------------------------------------------------------------
(* JavaScript values *)

Null == <<>>

Some(n) == <<n>>

IsNull(v) == v = <<>>

\* `v || d` on a nullable number: null and 0 are falsy.
Falsy(v) == IsNull(v) \/ v[1] = 0

Min(a, b) == IF a <= b THEN a ELSE b

Max(a, b) == IF a >= b THEN a ELSE b

Abs(a) == IF a < 0 THEN -a ELSE a

\* Array.prototype.includes / Array.prototype.some on a sequence
ArrIncludes(arr, x) == \E i \in 1..Len(arr) : arr[i] = x

----------------------------------------------------------------------------
(* Strings *)

\* String.prototype.toLowerCase, one character
LowerChar(c) ==
    CASE c = "A" -> "a" [] c = "B" -> "b" [] c = "C" -> "c" [] c = "D" -> "d"
      [] c = "E" -> "e" [] c = "F" -> "f" [] c = "G" -> "g" [] c = "H" -> "h"
      [] c = "I" -> "i" [] c = "J" -> "j" [] c = "K" -> "k" [] c = "L" -> "l"
      [] c = "M" -> "m" [] c = "N" -> "n" [] c = "O" -> "o" [] c = "P" -> "p"
      [] c = "Q" -> "q" [] c = "R" -> "r" [] c = "S" -> "s" [] c = "T" -> "t"
      [] c = "U" -> "u" [] c = "V" -> "v" [] c = "W" -> "w" [] c = "X" -> "x"
      [] c = "Y" -> "y" [] c = "Z" -> "z" [] OTHER -> c

toLowerCase(s) == [i \in 1..Len(s) |-> LowerChar(s[i])]

IsSpace(c) == c \in {" ", "\t", "\n"}

RECURSIVE trimStart(_)
trimStart(s) ==
    IF s # <<>> /\ IsSpace(Head(s)) THEN trimStart(Tail(s)) ELSE s

RECURSIVE trimEnd(_)
trimEnd(s) ==
    IF s # <<>> /\ IsSpace(s[Len(s)])
    THEN trimEnd(SubSeq(s, 1, Len(s) - 1))
    ELSE s

\* String.prototype.trim
trim(s) == trimEnd(trimStart(s))

\* String.prototype.includes: needle occurs in hay at some offset
StrIncludes(hay, needle) ==
    \E i \in 0..(Len(hay) - Len(needle)) :
        SubSeq(hay, i + 1, i + Len(needle)) = needle

----------------------------------------------------------------------------
(* Deals (page.tsx:11-24) *)

Million == 1000000

Deal(id, receiver, aggregator, date, type, raw, vmin, vmax, codes) ==
    [id |-> id, data_receiver |-> receiver, data_aggregator |-> aggregator,
     ref |-> <<>>, date |-> date, type |-> type, value_raw |-> raw,
     value_min |-> vmin, value_max |-> vmax, value_unit |-> Null,
     codes |-> codes, source_url |-> Null]

\* A deal amount in millions, as the floor and the ceiling of the real number
Exact(n) == [lo |-> n, hi |-> n]

\* x / 1000000 on a non-negative amount
DivMillion(x) ==
    [lo |-> x.lo \div Million, hi |-> (x.hi + Million - 1) \div Million]

\* amount >= f and amount <= f for an integer f
AmountGE(x, f) == x.lo >= f

AmountLE(x, f) == x.hi <= f

----------------------------------------------------------------------------
(* The filter engine, page.tsx:92-153 *)

\* page.tsx:99-101
nodeTestReceiverOnly(deal, selected) == deal.data_receiver \in selected

nodeTest(deal, selected) ==
    deal.data_receiver \in selected \/ deal.data_aggregator \in selected

\* page.tsx:108
yearTestExclusive(deal, f) == deal.date >= f.yearMin /\ deal.date < f.yearMax

yearTest(deal, f) == deal.date >= f.yearMin /\ deal.date <= f.yearMax

\* page.tsx:118   (deal.value_min || 0) / 1000000
dealMinOf(deal) ==
    DivMillion(Exact(IF Falsy(deal.value_min) THEN 0 ELSE deal.value_min[1]))

\* page.tsx:119   (deal.value_max || dealMin) / 1000000
dealMaxOf(deal) ==
    DivMillion(IF Falsy(deal.value_max)
               THEN dealMinOf(deal)
               ELSE Exact(deal.value_max[1]))

\* page.tsx:120
filterMinOf(f) == IF f.valueMin < 0 THEN 0 ELSE f.valueMin

valueTestNoContainment(deal, f) ==
    IF IsNull(deal.value_min) /\ IsNull(deal.value_max)
    THEN f.valueMin < 0
    ELSE LET dealMin == dealMinOf(deal)
             dealMax == dealMaxOf(deal)
             filterMin == filterMinOf(f)
         IN  \/ (AmountGE(dealMin, filterMin) /\ AmountLE(dealMin, f.valueMax))
             \/ (AmountGE(dealMax, filterMin) /\ AmountLE(dealMax, f.valueMax))

valueTestUndisclosedNeedsMax(deal, f) ==
    IF IsNull(deal.value_min) /\ IsNull(deal.value_max)
    THEN f.valueMin < 0 /\ f.valueMax > 0
    ELSE LET dealMin == dealMinOf(deal)
             dealMax == dealMaxOf(deal)
             filterMin == filterMinOf(f)
         IN  \/ (AmountGE(dealMin, filterMin) /\ AmountLE(dealMin, f.valueMax))
             \/ (AmountGE(dealMax, filterMin) /\ AmountLE(dealMax, f.valueMax))
             \/ (AmountLE(dealMin, filterMin) /\ AmountGE(dealMax, f.valueMax))

\* page.tsx:112-126
valueTest(deal, f) ==
    IF IsNull(deal.value_min) /\ IsNull(deal.value_max)
    THEN f.valueMin < 0
    ELSE LET dealMin == dealMinOf(deal)
             dealMax == dealMaxOf(deal)
             filterMin == filterMinOf(f)
         IN  \/ (AmountGE(dealMin, filterMin) /\ AmountLE(dealMin, f.valueMax))
             \/ (AmountGE(dealMax, filterMin) /\ AmountLE(dealMax, f.valueMax))
             \/ (AmountLE(dealMin, filterMin) /\ AmountGE(dealMax, f.valueMax))

\* page.tsx:130
typeTest(deal, f) == ArrIncludes(f.types, deal.type)

\* page.tsx:136
codesTest(deal, f) ==
    \E i \in 1..Len(deal.codes) : ArrIncludes(f.codes, deal.codes[i])

searchTestCaseSensitive(deal, query) ==
    \/ StrIncludes(deal.data_receiver, query)
    \/ StrIncludes(deal.data_aggregator, query)
    \/ StrIncludes(deal.type, query)
    \/ StrIncludes(deal.value_raw, query)
    \/ \E i \in 1..Len(deal.codes) : StrIncludes(deal.codes[i], query)

\* page.tsx:144-148
searchTest(deal, query) ==
    \/ StrIncludes(toLowerCase(deal.data_receiver), query)
    \/ StrIncludes(toLowerCase(deal.data_aggregator), query)
    \/ StrIncludes(toLowerCase(deal.type), query)
    \/ StrIncludes(toLowerCase(deal.value_raw), query)
    \/ \E i \in 1..Len(deal.codes) : StrIncludes(toLowerCase(deal.codes[i]), query)

\* page.tsx:97-103
byNodesTwoPasses(list, selected) ==
    IF Cardinality(selected) > 0
    THEN SelectSeq(list, LAMBDA d : d.data_receiver \in selected)
         \o SelectSeq(list, LAMBDA d : d.data_aggregator \in selected)
    ELSE list

byNodes(list, selected) ==
    IF Cardinality(selected) > 0
    THEN SelectSeq(list, LAMBDA d : nodeTest(d, selected))
    ELSE list

\* page.tsx:107-109
byYear(list, f) == SelectSeq(list, LAMBDA d : yearTest(d, f))

\* page.tsx:112-126
byValue(list, f) == SelectSeq(list, LAMBDA d : valueTest(d, f))

\* page.tsx:129-131
byTypes(list, f) ==
    IF Len(f.types) > 0
    THEN SelectSeq(list, LAMBDA d : typeTest(d, f))
    ELSE list

byCodesAlways(list, f) == SelectSeq(list, LAMBDA d : codesTest(d, f))

\* page.tsx:134-138
byCodes(list, f) ==
    IF Len(f.codes) > 0
    THEN SelectSeq(list, LAMBDA d : codesTest(d, f))
    ELSE list

\* page.tsx:141-150
bySearch(list, q) ==
    IF trim(q) # <<>>
    THEN LET query == trim(toLowerCase(q))
         IN  SelectSeq(list, LAMBDA d : searchTest(d, query))
    ELSE list

\* page.tsx:92-152: the list handed to setFilteredDeals
applyFilters(allDeals, selected, f, q) ==
    bySearch(byCodes(byTypes(byValue(byYear(byNodes(allDeals, selected), f), f), f), f), q)

----------------------------------------------------------------------------
(* Value-step snapping.  The argument value2 is twice the value. *)

\* page.tsx:47, Filters.tsx:402
steps == <<75, 150, 225, 300>>

\* The loop `for (const step of steps)` from index i on, carrying
\* <<closest, minDist>>; distances are doubled like the argument.
RECURSIVE closestStepUpperWins(_, _, _, _)
closestStepUpperWins(value2, i, closest, minDist2) ==
    IF i > Len(steps) THEN closest
    ELSE LET dist2 == Abs(value2 - 2 * steps[i])
         IN  IF dist2 <= minDist2
             THEN closestStepUpperWins(value2, i + 1, steps[i], dist2)
             ELSE closestStepUpperWins(value2, i + 1, closest, minDist2)

\* page.tsx:49-57, Filters.tsx:404-412
RECURSIVE closestStep(_, _, _, _)
closestStep(value2, i, closest, minDist2) ==
    IF i > Len(steps) THEN closest
    ELSE LET dist2 == Abs(value2 - 2 * steps[i])
         IN  IF dist2 < minDist2
             THEN closestStep(value2, i + 1, steps[i], dist2)
             ELSE closestStep(value2, i + 1, closest, minDist2)

snapUpperWins(value2) ==
    IF value2 < 0 THEN -1
    ELSE LET closest == closestStepUpperWins(value2, 1, steps[1],
                                             Abs(value2 - 2 * steps[1]))
         IN  IF value2 >= 0 /\ value2 < steps[1] THEN steps[1] ELSE closest

\* page.tsx:45-63.  `value < steps[0] / 2` is value2 < steps[0].
snapToValueStep(value2) ==
    IF value2 < 0 THEN -1
    ELSE LET closest == closestStep(value2, 1, steps[1],
                                    Abs(value2 - 2 * steps[1]))
         IN  IF value2 >= 0 /\ value2 < steps[1] THEN steps[1] ELSE closest

\* Filters.tsx:400-418
snapToStep(value2) ==
    IF value2 < 0 THEN -1
    ELSE LET closest == closestStep(value2, 1, steps[1],
                                    Abs(value2 - 2 * steps[1]))
         IN  IF value2 >= 0 /\ value2 < steps[1] THEN steps[1] ELSE closest

----------------------------------------------------------------------------
(* The Deal Store: GET /api/deals and GET /api/stats *)

RECURSIVE insertByDateDesc(_, _)
insertByDateDesc(deal, sorted) ==
    IF sorted = <<>> THEN <<deal>>
    ELSE IF deal.date > Head(sorted).date
         THEN <<deal>> \o sorted
         ELSE <<Head(sorted)>> \o insertByDateDesc(deal, Tail(sorted))

\* deals/route.ts:43-46   orderBy: { date: 'desc' }; rows of one year keep
\* their row order.
RECURSIVE orderByDateDesc(_)
orderByDateDesc(table) ==
    IF table = <<>> THEN <<>>
    ELSE insertByDateDesc(table[Len(table)],
                          orderByDateDesc(SubSeq(table, 1, Len(table) - 1)))

\* stats/route.ts:11-14
yearCountsOf(table) ==
    [y \in {table[i].date : i \in 1..Len(table)} |->
        Len(SelectSeq(table, LAMBDA d : d.date = y))]

\* stats/route.ts:17-20
typeCountsOf(table) ==
    [t \in {table[i].type : i \in 1..Len(table)} |->
        Len(SelectSeq(table, LAMBDA d : d.type = t))]

\* stats/route.ts:23-29
codeCountsOf(table) ==
    [c \in UNION {{table[i].codes[j] : j \in 1..Len(table[i].codes)} :
                  i \in 1..Len(table)} |->
        Len(SelectSeq(table, LAMBDA d : ArrIncludes(d.codes, c)))]

\* stats/route.ts:34   d.value_min || d.value_max
valueOfRow(d) == IF Falsy(d.value_min) THEN d.value_max ELSE d.value_min

MaxOfSet(S) ==
    IF S = {} THEN 0
    ELSE LET x == CHOOSE x \in S : \A y \in S : y <= x IN x

maxDollarsOfUnguarded(table) ==
    LET values == {valueOfRow(table[i])[1] :
                   i \in {k \in 1..Len(table) : ~IsNull(valueOfRow(table[k]))}}
    IN  IF values = {} THEN -1 ELSE MaxOfSet(values)

\* stats/route.ts:33-38: the largest `value_min || value_max` that is not null,
\* in dollars (0 when there is none).
maxDollarsOf(table) ==
    MaxOfSet({valueOfRow(table[i])[1] :
              i \in {k \in 1..Len(table) : ~IsNull(valueOfRow(table[k]))}})

\* stats/route.ts:50-58.  valueRange.max is the real number
\* 1.1 * maxDollars / 1000000; the record keeps maxDollars.
statsOf(table) ==
    [yearCounts |-> yearCountsOf(table),
     typeCounts |-> typeCountsOf(table),
     codeCounts |-> codeCountsOf(table),
     valueRange |-> [min |-> 0, maxDollars |-> maxDollarsOf(table)],
     totalDeals |-> Len(table)]

\* Twice Math.min(300, valueRange.max), rounded up to the next integer: the
\* snap functions return the same step for a value and for the next half above
\* it, since the steps' midpoints are multiples of one half.
\* 2 * 1.1 * m / 10^6 = 11 * m / (5 * 10^6).
rawValueMax2(st) ==
    LET m == st.valueRange.maxDollars
        unit == 5 * Million
        twice == 11 * (m \div unit) + ((11 * (m % unit) + unit - 1) \div unit)
    IN  Min(2 * 300, twice)

----------------------------------------------------------------------------
(* The graph model, NetworkGraph.tsx:132-174 *)

\* Map.has on a Map kept as the sequence of its entries in insertion order
mapHas(map, key) == \E i \in 1..Len(map) : map[i].key = key

\* NetworkGraph.tsx:139-144   if (!nodesMap.has(name)) nodesMap.set(name, ...)
nodesMapSet(map, name) ==
    IF mapHas(map, name) THEN map
    ELSE Append(map, [key |-> name, name |-> name, count |-> 0])

\* NetworkGraph.tsx:146-147 and 167   map.get(key)!.count++
mapCountUp(map, key) ==
    [i \in 1..Len(map) |->
        IF map[i].key = key THEN [map[i] EXCEPT !.count = @ + 1] ELSE map[i]]

\* NetworkGraph.tsx:135-148: the body of deals.forEach
nodesMapStep(map, deal) ==
    LET withReceiver == nodesMapSet(map, deal.data_receiver)
        withBoth == nodesMapSet(withReceiver, deal.data_aggregator)
    IN  mapCountUp(mapCountUp(withBoth, deal.data_receiver),
                   deal.data_aggregator)

RECURSIVE nodesMapFrom(_, _, _)
\* NetworkGraph.tsx:133-148
nodesMapFrom(list, i, map) ==
    IF i > Len(list) THEN map
    ELSE nodesMapFrom(list, i + 1, nodesMapStep(map, list[i]))

\* NetworkGraph.tsx:150-154
nodesOf(list) ==
    LET map == nodesMapFrom(list, 1, <<>>)
    IN  [i \in 1..Len(map) |->
            [id |-> map[i].name, name |-> map[i].name, count |-> map[i].count,
             index |-> i - 1]]

\* NetworkGraph.tsx:159   `${deal.data_aggregator}->${deal.data_receiver}`
linkKeyOf(deal) == deal.data_aggregator \o <<"-", ">">> \o deal.data_receiver

\* NetworkGraph.tsx:158-167: the body of deals.forEach
linkMapStep(map, deal) ==
    LET key == linkKeyOf(deal)
        withKey == IF mapHas(map, key) THEN map
                   ELSE Append(map, [key |-> key,
                                     source |-> deal.data_aggregator,
                                     target |-> deal.data_receiver,
                                     count |-> 0])
    IN  mapCountUp(withKey, key)

RECURSIVE linkMapFrom(_, _, _)
\* NetworkGraph.tsx:157-168
linkMapFrom(list, i, map) ==
    IF i > Len(list) THEN map
    ELSE linkMapFrom(list, i + 1, linkMapStep(map, list[i]))

indexAlwaysZero(nodes, id) == 0

\* NetworkGraph.tsx:171   nodes.find(n => n.id === id)?.index || 0
indexOrZero(nodes, id) ==
    IF \E i \in 1..Len(nodes) : nodes[i].id = id
    THEN nodes[CHOOSE i \in 1..Len(nodes) : nodes[i].id = id].index
    ELSE 0

\* NetworkGraph.tsx:170-174: the filter keeps every link, no index is undefined
linksOf(list) ==
    LET nodes == nodesOf(list)
        map == linkMapFrom(list, 1, <<>>)
    IN  [i \in 1..Len(map) |->
            [source |-> indexOrZero(nodes, map[i].source),
             target |-> indexOrZero(nodes, map[i].target),
             count |-> map[i].count]]

\* NetworkGraph.tsx:27-29: before the first layout the refs hold nothing
NoGraph == [nodes |-> <<>>, links |-> <<>>, layoutRuns |-> 0, fills |-> {}]

\* NetworkGraph.tsx:225-227 and 359-362: the nodes filled with the selected
\* colour
fillsOf(nodes, selected) ==
    {nodes[i].id : i \in {j \in 1..Len(nodes) : nodes[j].id \in selected}}

\* NetworkGraph.tsx:32-351: the layout effect builds the nodes and links, runs
\* the simulation to its end (300-307) and stores the result in the refs; the
\* positions are those of layout run number layoutRuns.
layoutOf(g, list, selected) ==
    [nodes |-> nodesOf(list), links |-> linksOf(list),
     layoutRuns |-> g.layoutRuns + 1,
     fills |-> fillsOf(nodesOf(list), selected)]

\* NetworkGraph.tsx:354-363: the recolor effect
recolorOf(g, selected) ==
    IF g.layoutRuns = 0 THEN g
    ELSE [g EXCEPT !.fills = fillsOf(g.nodes, selected)]

----------------------------------------------------------------------------
(* The page, page.tsx:26-169 and 273-323 *)

\* page.tsx:32-39
initialFilters ==
    [yearMin |-> 2016, yearMax |-> 2025, valueMin |-> -1, valueMax |-> 0,
     types |-> <<>>, codes |-> <<>>]

\* page.tsx:78-79 and 159-160
snappedValueMaxOf(st) ==
    snapToValueStep(IF IsNull(st) THEN 2 * 300 ELSE rawValueMax2(st[1]))

resetFiltersKeepCodes(st) ==
    [filters EXCEPT !.yearMin = 2016, !.yearMax = 2025, !.valueMin = -1,
                    !.valueMax = snappedValueMaxOf(st), !.types = <<>>]

\* page.tsx:161-168
resetFilters(st) ==
    [yearMin |-> 2016, yearMax |-> 2025, valueMin |-> -1,
     valueMax |-> snappedValueMaxOf(st), types |-> <<>>, codes |-> <<>>]

toggleNodeAddOnly(prev, node) == prev \cup {node}

\* page.tsx:283-291: the updater passed to setSelectedNodes
toggleNode(prev, node) ==
    IF node \in prev THEN prev \ {node} ELSE prev \cup {node}

\* Filters.tsx:50-55: the updater of toggleType
toggleType(prev, type) ==
    [prev EXCEPT !.types =
        IF ArrIncludes(prev.types, type)
        THEN SelectSeq(prev.types, LAMBDA t : t # type)
        ELSE Append(prev.types, type)]

\* Filters.tsx:59-64: the updater of toggleCode
toggleCode(prev, code) ==
    [prev EXCEPT !.codes =
        IF ArrIncludes(prev.codes, code)
        THEN SelectSeq(prev.codes, LAMBDA c : c # code)
        ELSE Append(prev.codes, code)]

\* The number Math.min(...[]) + p * (Math.max(...[]) - Math.min(...[]))
\* evaluates to (Filters.tsx:43-44 and 176: Infinity + p * -Infinity), and
\* everything computed from it: a year that is not a number.
NaN == -2

\* Math.min and Math.max, which return NaN if an argument is NaN
jsMin(a, b) == IF a = NaN \/ b = NaN THEN NaN ELSE Min(a, b)

jsMax(a, b) == IF a = NaN \/ b = NaN THEN NaN ELSE Max(a, b)

\* Filters.tsx:173-175: the width in pixels of the slider's rectangle; a
\* pointer position is its distance in pixels from the rectangle's left edge.
\* On the value slider a pixel is half a million dollars (301 / 602).
RectWidth == 602

\* Filters.tsx:40-44
yearsOf(st) == DOMAIN st.yearCounts

minYearOf(st) == CHOOSE y \in yearsOf(st) : \A z \in yearsOf(st) : y <= z

maxYearOf(st) == CHOOSE y \in yearsOf(st) : \A z \in yearsOf(st) : z <= y

\* Filters.tsx:176 and 216   minYear + percent * (maxYear - minYear), times
\* RectWidth
clickedYearOf(st, x) ==
    IF yearsOf(st) = {} THEN NaN
    ELSE RectWidth * minYearOf(st) + x * (maxYearOf(st) - minYearOf(st))

\* Filters.tsx:197 and 217   Math.round of a value given times RectWidth
roundYear(scaled) ==
    IF scaled = NaN THEN NaN
    ELSE (2 * scaled + RectWidth) \div (2 * RectWidth)

\* Filters.tsx:179-193.  With equal knobs the left one is taken when the
\* pointer is left of the knobs' centre, which is not a number when the
\* dataset has fewer than two years.
whichYearSlider(local, st, x) ==
    IF local.yearMin # NaN /\ local.yearMin = local.yearMax
    THEN IF /\ yearsOf(st) # {}
            /\ maxYearOf(st) > minYearOf(st)
            /\ x * (maxYearOf(st) - minYearOf(st))
                 < (local.yearMin - minYearOf(st)) * RectWidth
         THEN "yearMin" ELSE "yearMax"
    ELSE IF /\ clickedYearOf(st, x) # NaN
            /\ local.yearMin # NaN
            /\ local.yearMax # NaN
            /\ Abs(clickedYearOf(st, x) - RectWidth * local.yearMin)
                 < Abs(clickedYearOf(st, x) - RectWidth * local.yearMax)
         THEN "yearMin" ELSE "yearMax"

\* Filters.tsx:198-208, 219-229, 250-256 and 272-278: the updaters of the
\* year controls
setYear(prev, which, v) ==
    IF which = "yearMin"
    THEN [prev EXCEPT !.yearMin = jsMin(v, prev.yearMax)]
    ELSE [prev EXCEPT !.yearMax = jsMax(v, prev.yearMin)]

\* Filters.tsx:373-374
leftValueOf(local) == IF local.valueMin < 0 THEN -1 ELSE local.valueMin

rightValueOf(local) == local.valueMax

\* Filters.tsx:377-378: the position of a knob in pixels,
\* (value + 1) / 301 * RectWidth
knobOf(value) == 2 * (value + 1)

\* Filters.tsx:380-382; valueMaxActual * 0.01 is 3
valuesEqual(local) ==
    \/ leftValueOf(local) = rightValueOf(local)
    \/ (local.valueMin < 0 /\ local.valueMax = 0)
    \/ (local.valueMin >= 0 /\ Abs(local.valueMin - local.valueMax) < 3)

\* Filters.tsx:384-396; the offset of overlapping knobs is 8 pixels
whichValueSlider(local, x) ==
    LET left == knobOf(leftValueOf(local)) - (IF valuesEqual(local) THEN 8 ELSE 0)
        right == knobOf(rightValueOf(local)) + (IF valuesEqual(local) THEN 8 ELSE 0)
    IN  IF Abs(x - left) < Abs(x - right) THEN "valueMin" ELSE "valueMax"

\* Filters.tsx:422-429
currentKnobOf(local, which) ==
    IF which = "valueMin"
    THEN knobOf(leftValueOf(local)) - (IF valuesEqual(local) THEN 8 ELSE 0)
    ELSE knobOf(rightValueOf(local)) + (IF valuesEqual(local) THEN 8 ELSE 0)

\* Filters.tsx:440-441 and 464-466   snappedValue < 0 ? -1 : Math.max(75,
\* Math.min(300, snappedValue)) of the value under the pointer, which is
\* -1 + x * 301 / RectWidth, that is x - 2 halves
steppedValueAt(x) ==
    LET snappedValue == snapToStep(x - 2)
    IN  IF snappedValue < 0 THEN -1 ELSE Max(75, Min(300, snappedValue))

\* Filters.tsx:430-442: a press less than 5% of the width away from the knob
\* keeps the knob's value
valueToUseOf(local, which, x) ==
    IF Abs(x - currentKnobOf(local, which)) * 100 < 5 * RectWidth
    THEN IF which = "valueMin" THEN leftValueOf(local) ELSE rightValueOf(local)
    ELSE steppedValueAt(x)

\* Filters.tsx:445-455, 468-478, 501-505 and 522-526: the updaters of the
\* value controls
setValue(prev, which, v) ==
    IF which = "valueMin"
    THEN [prev EXCEPT !.valueMin = Min(v, prev.valueMax)]
    ELSE [prev EXCEPT !.valueMax = Max(v, prev.valueMin)]

\* Filters.tsx:215 and 462   Math.max(0, Math.min(1, moveX / width))
clampedMove(x) == Max(0, Min(RectWidth, x))

\* NetworkGraph.tsx:132-154: the ids of the graph's nodes
nodeIdsOf(list) ==
    {list[i].data_receiver : i \in 1..Len(list)}
        \cup {list[i].data_aggregator : i \in 1..Len(list)}

renderedAlways == TRUE

\* page.tsx:273: the graph, the filters and the table are rendered
rendered == ~IsNull(stats)

\* Filters.tsx:46-65: the Filter States the type and code buttons produce from
\* the component's local copy, one button per key of stats.typeCounts and
\* stats.codeCounts
filterInputs ==
    IF IsNull(stats) THEN {}
    ELSE {toggleType(localFilters, t) : t \in DOMAIN stats[1].typeCounts}
            \cup {toggleCode(localFilters, c) : c \in DOMAIN stats[1].codeCounts}

NoToggle == <<>>

\* The history kept of a handler call: its name, whether it changed a state,
\* how many times applyFilters has run since, how many times in a row
\* resetAllFilters was called, the Filter State, search query and Selection Set
\* the first of these calls left, the graph before the call, how many times
\* the passive effects have been flushed since, and whether a handler of the
\* user interface has been called so far.
OpRecord(name) ==
    [op |-> name, changes |-> TRUE, runs |-> 0, resets |-> 0, after |-> <<>>,
     graph |-> graph, flushes |-> 0,
     user |-> (lastOp.user \/ name \notin {"dealsLoaded", "statsLoaded"})]

NoOp ==
    [op |-> "none", changes |-> TRUE, runs |-> 0, resets |-> 0, after |-> <<>>,
     graph |-> graph, flushes |-> 0, user |-> FALSE]

\* Cap of the history counter of applyFilters runs
MaxRuns == 3

\* Cap of the history counter of effect flushes
MaxFlushes == 5

homeDepsNoSearch == {"deals", "selectedNodes", "filters"}

\* page.tsx:90   [deals, selectedNodes, filters, searchQuery]
homeDeps == {"deals", "selectedNodes", "filters", "searchQuery"}

layoutDepsWithSelection == {"deals", "stats", "selectedNodes"}

\* NetworkGraph.tsx:351   [deals, stats]
layoutDeps == {"deals", "stats"}

\* NetworkGraph.tsx:363   [selectedNodes]
recolorDeps == {"selectedNodes"}

syncInDepsNone == {}

\* Filters.tsx:31   [filters]
syncInDeps == {"filters"}

\* Filters.tsx:36   [localFilters, onFiltersChange]; onFiltersChange is the
\* page's setFilters, which never changes
syncOutDeps == {"localFilters"}

\* An effect of the page runs after a commit that changed one of its
\* dependencies; an effect of a child (rendered only with stats, page.tsx:273)
\* also runs after the commit that mounted it.
effectsScheduled(ch, st) ==
    \/ ch \cap homeDeps # {}
    \/ /\ ~IsNull(st)
       /\ \/ "mount" \in ch
          \/ ch \cap (layoutDeps \cup recolorDeps \cup syncInDeps
                        \cup syncOutDeps) # {}

handsOverCopy(same) == TRUE

\* Filters.tsx:28 setLocalFilters(filters) and 35 onFiltersChange(localFilters)
\* hand over the object itself, not a copy: the update changes the state only
\* if the state holds another object (same: both states hold one object).
handsOverChange(same) == ~same

childFires(deps) == rendered /\ ("mount" \in changed \/ deps \cap changed # {})

\* page.tsx:68-71   setDeals(data); setFilteredDeals(data)
DealsLoaded ==
    /\ dealsFetch = "pending"
    /\ ~effectPending
    /\ dealsFetch' = "done"
    /\ deals' = orderByDateDesc(db)
    /\ filteredDeals' = orderByDateDesc(db)
    /\ changed' = {"deals", "filteredDeals"}
    /\ effectPending' = effectsScheduled(changed', stats)
    /\ lastToggle' = NoToggle
    /\ lastOp' = OpRecord("dealsLoaded")
    /\ UNCHANGED <<selectedNodes, searchQuery, filters, stats, db, statsFetch>>
    /\ UNCHANGED graph
    /\ UNCHANGED filtersVars
    /\ UNCHANGED snapVars
    /\ UNCHANGED adminVars

\* page.tsx:75-85   setStats(data); setFilters(prev => ...).  The commit mounts
\* the graph, the filters and the table; Filters.tsx:20 takes the new Filter
\* State as the initial local copy.
StatsLoaded ==
    /\ statsFetch = "pending"
    /\ ~effectPending
    /\ statsFetch' = "done"
    /\ stats' = Some(statsOf(db))
    /\ filters' = [filters EXCEPT !.valueMin = -1,
                                  !.valueMax = snappedValueMaxOf(Some(statsOf(db)))]
    /\ localFilters' = filters'
    /\ localIsFilters' = TRUE
    /\ isInternalUpdateRef' = FALSE
    /\ draggingSlider' = Null
    /\ changed' = {"stats", "filters", "mount"}
    /\ effectPending' = effectsScheduled(changed', stats')
    /\ lastToggle' = NoToggle
    /\ lastOp' = OpRecord("statsLoaded")
    /\ UNCHANGED <<deals, filteredDeals, selectedNodes, searchQuery, db, dealsFetch>>
    /\ UNCHANGED graph
    /\ UNCHANGED snapVars
    /\ UNCHANGED adminVars

\* page.tsx:88-90 with 92-153: applyFilters on its own, as the effect on
\* [deals, selectedNodes, filters, searchQuery] runs it.
ApplyFiltersEffect ==
    /\ effectPending
    /\ filteredDeals' = applyFilters(deals, selectedNodes, filters, searchQuery)
    /\ effectPending' = FALSE
    /\ changed' = {}
    /\ lastOp' = [lastOp EXCEPT !.runs = Min(@ + 1, MaxRuns)]
    /\ UNCHANGED <<deals, selectedNodes, searchQuery, filters, stats, db,
                   dealsFetch, statsFetch, lastToggle>>
    /\ UNCHANGED graph
    /\ UNCHANGED filtersVars
    /\ UNCHANGED snapVars
    /\ UNCHANGED adminVars

FlushEffectsFilteringInPlace ==
    /\ effectPending
    /\ LET layout == childFires(layoutDeps)
           recolor == childFires(recolorDeps)
           syncIn == childFires(syncInDeps)
           syncOut == childFires(syncOutDeps)
           apply == changed \cap homeDeps # {}
           setLocal == syncIn /\ ~isInternalUpdateRef
           graph1 == IF layout THEN layoutOf(graph, deals, selectedNodes)
                     ELSE graph
       IN  /\ graph' = IF recolor THEN recolorOf(graph1, selectedNodes)
                       ELSE graph1
           /\ isInternalUpdateRef' =
                IF syncOut THEN TRUE
                ELSE IF syncIn THEN FALSE ELSE isInternalUpdateRef
           /\ localFilters' = IF setLocal THEN filters ELSE localFilters
           /\ filters' = IF syncOut THEN localFilters ELSE filters
           /\ localIsFilters' =
                IF setLocal /\ syncOut THEN localIsFilters
                ELSE IF setLocal \/ syncOut THEN TRUE ELSE localIsFilters
           /\ filteredDeals' =
                IF apply
                THEN applyFilters(deals, selectedNodes, filters, searchQuery)
                ELSE filteredDeals
           /\ changed' =
                (IF setLocal /\ handsOverChange(localIsFilters)
                 THEN {"localFilters"} ELSE {})
                  \cup (IF syncOut /\ handsOverChange(localIsFilters)
                        THEN {"filters"} ELSE {})
                  \cup (IF apply THEN {"filteredDeals"} ELSE {})
           /\ lastOp' =
                [lastOp EXCEPT !.runs = IF apply THEN Min(@ + 1, MaxRuns) ELSE @,
                               !.flushes = Min(@ + 1, MaxFlushes)]
    /\ effectPending' = effectsScheduled(changed', stats)
    /\ deals' = IF changed \cap homeDeps # {}
                THEN applyFilters(deals, selectedNodes, filters, searchQuery)
                ELSE deals
    /\ UNCHANGED <<selectedNodes, searchQuery, stats, db, dealsFetch,
                   statsFetch, lastToggle, draggingSlider>>
    /\ UNCHANGED snapVars
    /\ UNCHANGED adminVars

\* The passive effects of the last commit, run children first in the order
\* of page.tsx:278-303 and then the page's own, followed by the commit of the
\* state updates they made.  React drops an update whose value is the very
\* object the state already holds.
\*   NetworkGraph.tsx:32-351   layout        [deals, stats]
\*   NetworkGraph.tsx:354-363  recolor       [selectedNodes]
\*   Filters.tsx:26-31         sync in       [filters]
\*   Filters.tsx:33-36         sync out      [localFilters, onFiltersChange]
\*   page.tsx:88-90            applyFilters  [deals, selectedNodes, filters,
\*                                            searchQuery]
FlushEffects ==
    /\ effectPending
    /\ LET layout == childFires(layoutDeps)
           recolor == childFires(recolorDeps)
           syncIn == childFires(syncInDeps)
           syncOut == childFires(syncOutDeps)
           apply == changed \cap homeDeps # {}
           setLocal == syncIn /\ ~isInternalUpdateRef
           graph1 == IF layout THEN layoutOf(graph, deals, selectedNodes)
                     ELSE graph
       IN  /\ graph' = IF recolor THEN recolorOf(graph1, selectedNodes)
                       ELSE graph1
           /\ isInternalUpdateRef' =
                IF syncOut THEN TRUE
                ELSE IF syncIn THEN FALSE ELSE isInternalUpdateRef
           /\ localFilters' = IF setLocal THEN filters ELSE localFilters
           /\ filters' = IF syncOut THEN localFilters ELSE filters
           /\ localIsFilters' =
                IF setLocal /\ syncOut THEN localIsFilters
                ELSE IF setLocal \/ syncOut THEN TRUE ELSE localIsFilters
           /\ filteredDeals' =
                IF apply
                THEN applyFilters(deals, selectedNodes, filters, searchQuery)
                ELSE filteredDeals
           /\ changed' =
                (IF setLocal /\ handsOverChange(localIsFilters)
                 THEN {"localFilters"} ELSE {})
                  \cup (IF syncOut /\ handsOverChange(localIsFilters)
                        THEN {"filters"} ELSE {})
                  \cup (IF apply THEN {"filteredDeals"} ELSE {})
           /\ lastOp' =
                [lastOp EXCEPT !.runs = IF apply THEN Min(@ + 1, MaxRuns) ELSE @,
                               !.flushes = Min(@ + 1, MaxFlushes)]
    /\ effectPending' = effectsScheduled(changed', stats)
    /\ UNCHANGED <<deals, selectedNodes, searchQuery, stats, db, dealsFetch,
                   statsFetch, lastToggle, draggingSlider>>
    /\ UNCHANGED snapVars
    /\ UNCHANGED adminVars

\* page.tsx:282-292   onNodeToggle, called with the id of a clicked node.
\* lastToggle records the node, how many times in a row it was toggled and the
\* Selection Set and filtered list before the first of these toggles.
OnNodeToggle(node) ==
    /\ rendered
    /\ ~effectPending
    /\ node \in nodeIdsOf(deals)
    /\ selectedNodes' = toggleNode(selectedNodes, node)
    /\ changed' = {"selectedNodes"}
    /\ effectPending' = effectsScheduled(changed', stats)
    /\ lastToggle' =
         IF lastToggle # NoToggle /\ lastToggle[1].node = node
                                  /\ lastToggle[1].count = 1
         THEN <<[lastToggle[1] EXCEPT !.count = 2]>>
         ELSE <<[node |-> node, count |-> 1, selected |-> selectedNodes,
                 filtered |-> filteredDeals]>>
    /\ lastOp' = OpRecord("toggleNode")
    /\ UNCHANGED <<deals, filteredDeals, searchQuery, filters, stats, db,
                   dealsFetch, statsFetch>>
    /\ UNCHANGED graph
    /\ UNCHANGED filtersVars
    /\ UNCHANGED snapVars
    /\ UNCHANGED adminVars

\* page.tsx:314   onSearchChange={setSearchQuery}; setting the same string
\* again changes no state.
SetSearch(q) ==
    /\ rendered
    /\ ~effectPending
    /\ searchQuery' = q
    /\ changed' = IF q # searchQuery THEN {"searchQuery"} ELSE {}
    /\ effectPending' = effectsScheduled(changed', stats)
    /\ lastToggle' = NoToggle
    /\ lastOp' = [OpRecord("setSearch") EXCEPT !.changes = (q # searchQuery)]
    /\ UNCHANGED <<deals, filteredDeals, selectedNodes, filters, stats, db,
                   dealsFetch, statsFetch>>
    /\ UNCHANGED graph
    /\ UNCHANGED filtersVars
    /\ UNCHANGED snapVars
    /\ UNCHANGED adminVars

\* Filters.tsx:46-65: a filter control calls setLocalFilters with one of the
\* updaters, which builds a new object; the sync-out effect then hands it to
\* the page (page.tsx:301 onFiltersChange={setFilters}).
OnFiltersChange(f) ==
    /\ rendered
    /\ ~effectPending
    /\ localFilters' = f
    /\ localIsFilters' = FALSE
    /\ changed' = {"localFilters"}
    /\ effectPending' = effectsScheduled(changed', stats)
    /\ lastToggle' = NoToggle
    /\ lastOp' = OpRecord("updateFilters")
    /\ UNCHANGED <<deals, filteredDeals, selectedNodes, searchQuery, filters,
                   stats, db, dealsFetch, statsFetch, isInternalUpdateRef,
                   draggingSlider>>
    /\ UNCHANGED graph
    /\ UNCHANGED snapVars
    /\ UNCHANGED adminVars

\* Filters.tsx:170-208 (slider = "year") and 363-455 (slider = "value"):
\* onMouseDown on a slider's track, x pixels from its left edge.  The knob
\* chosen is the one dragged until the button is released.
SliderMouseDown(slider, x) ==
    /\ rendered
    /\ ~effectPending
    /\ draggingSlider = Null
    /\ LET which == IF slider = "year"
                    THEN whichYearSlider(localFilters, stats[1], x)
                    ELSE whichValueSlider(localFilters, x)
       IN  /\ draggingSlider' = Some(which)
           /\ localFilters' =
                IF slider = "year"
                THEN setYear(localFilters, which,
                             roundYear(clickedYearOf(stats[1], x)))
                ELSE setValue(localFilters, which,
                              valueToUseOf(localFilters, which, x))
    /\ localIsFilters' = FALSE
    /\ changed' = {"localFilters"}
    /\ effectPending' = effectsScheduled(changed', stats)
    /\ lastToggle' = NoToggle
    /\ lastOp' = OpRecord("updateFilters")
    /\ UNCHANGED <<deals, filteredDeals, selectedNodes, searchQuery, filters,
                   stats, db, dealsFetch, statsFetch, isInternalUpdateRef>>
    /\ UNCHANGED graph
    /\ UNCHANGED snapVars
    /\ UNCHANGED adminVars

\* Filters.tsx:211-230 and 458-479: handleMouseMove, registered on the
\* document while a knob is dragged; the pointer may leave the track.
SliderMouseMove(x) ==
    /\ rendered
    /\ ~effectPending
    /\ draggingSlider # Null
    /\ LET which == draggingSlider[1]
       IN  localFilters' =
             IF which \in {"yearMin", "yearMax"}
             THEN setYear(localFilters, which,
                          roundYear(clickedYearOf(stats[1], clampedMove(x))))
             ELSE setValue(localFilters, which, steppedValueAt(clampedMove(x)))
    /\ localIsFilters' = FALSE
    /\ changed' = {"localFilters"}
    /\ effectPending' = effectsScheduled(changed', stats)
    /\ lastToggle' = NoToggle
    /\ lastOp' = OpRecord("updateFilters")
    /\ UNCHANGED <<deals, filteredDeals, selectedNodes, searchQuery, filters,
                   stats, db, dealsFetch, statsFetch, isInternalUpdateRef,
                   draggingSlider>>
    /\ UNCHANGED graph
    /\ UNCHANGED snapVars
    /\ UNCHANGED adminVars

\* Filters.tsx:232-237 and 481-486: handleMouseUp
SliderMouseUp ==
    /\ rendered
    /\ ~effectPending
    /\ draggingSlider # Null
    /\ draggingSlider' = Null
    /\ changed' = {}
    /\ effectPending' = effectsScheduled(changed', stats)
    /\ UNCHANGED <<deals, filteredDeals, selectedNodes, searchQuery, filters,
                   stats, db, dealsFetch, statsFetch, lastToggle, lastOp,
                   localFilters, localIsFilters, isInternalUpdateRef>>
    /\ UNCHANGED graph
    /\ UNCHANGED snapVars
    /\ UNCHANGED adminVars

\* Filters.tsx:245-283 and 493-534: onChange of one of the four range inputs
\* (min and max: the dataset's years, and -1 and 300; step 1), which does
\* nothing for the knob being dragged.  parseFloat of the value control's
\* number is taken as it is, but for a negative one, which becomes -1.
RangeInputChange(field, val) ==
    /\ rendered
    /\ ~effectPending
    /\ draggingSlider # Some(field)
    /\ localFilters' =
         IF field \in {"yearMin", "yearMax"}
         THEN setYear(localFilters, field, val)
         ELSE setValue(localFilters, field, IF val < 0 THEN -1 ELSE val)
    /\ localIsFilters' = FALSE
    /\ changed' = {"localFilters"}
    /\ effectPending' = effectsScheduled(changed', stats)
    /\ lastToggle' = NoToggle
    /\ lastOp' = OpRecord("updateFilters")
    /\ UNCHANGED <<deals, filteredDeals, selectedNodes, searchQuery, filters,
                   stats, db, dealsFetch, statsFetch, isInternalUpdateRef,
                   draggingSlider>>
    /\ UNCHANGED graph
    /\ UNCHANGED snapVars
    /\ UNCHANGED adminVars

\* page.tsx:155-169: new Set() and the object literal are new objects, '' is
\* a new value only if the query was not empty.
ResetAllFilters ==
    /\ rendered
    /\ ~effectPending
    /\ selectedNodes' = {}
    /\ searchQuery' = <<>>
    /\ filters' = resetFilters(stats)
    /\ localIsFilters' = FALSE
    /\ changed' = {"selectedNodes", "filters"}
                    \cup (IF searchQuery # <<>> THEN {"searchQuery"} ELSE {})
    /\ effectPending' = effectsScheduled(changed', stats)
    /\ lastToggle' = NoToggle
    /\ lastOp' =
         IF lastOp.op = "resetAll"
         THEN [lastOp EXCEPT !.runs = 0, !.resets = 2, !.flushes = 0]
         ELSE [OpRecord("resetAll") EXCEPT
                  !.resets = 1, !.after = <<resetFilters(stats), <<>>, {}>>]
    /\ UNCHANGED <<deals, filteredDeals, stats, db, dealsFetch, statsFetch,
                   localFilters, isInternalUpdateRef, draggingSlider>>
    /\ UNCHANGED graph
    /\ UNCHANGED snapVars
    /\ UNCHANGED adminVars

----------------------------------------------------------------------------
(* POST /api/suggestions/[id], src/app/api/suggestions/[id]/route.ts *)

NoRequest == <<>>

\* route.ts:108   Math.max(...deals.map(d => d.id), 0)
maxIdOf(list) == MaxOfSet({list[i].id : i \in 1..Len(list)} \cup {0})

updateDealsJsonKeepsOldRecord(json, dealData, isNew) ==
    IF isNew THEN Append(json, [dealData EXCEPT !.id = maxIdOf(json) + 1])
    ELSE json

\* route.ts:101-128: the array written back to data/deals.json
updateDealsJson(json, dealData, isNew) ==
    IF isNew THEN Append(json, [dealData EXCEPT !.id = maxIdOf(json) + 1])
    ELSE IF \E i \in 1..Len(json) : json[i].id = dealData.id
         THEN LET index == CHOOSE i \in 1..Len(json) :
                              /\ json[i].id = dealData.id
                              /\ \A j \in 1..(i - 1) : json[j].id # dealData.id
              IN  [json EXCEPT ![index] = dealData]
         ELSE json

\* The id prisma.deal.create gives a row created without one: Deal.id is an
\* auto-incremented key, one above the largest id of the table.
nextDealId(table) == maxIdOf(table) + 1

isSignedInSession(session) == ~IsNull(session) /\ ~IsNull(session[1].user)

\* route.ts:148   session?.user?.isAdmin
isAdminSession(session) ==
    /\ ~IsNull(session)
    /\ ~IsNull(session[1].user)
    /\ session[1].user[1].isAdmin

\* route.ts:168   session.user.githubUsername || 'unknown'
reviewerOf(session) ==
    IF session[1].user[1].githubUsername = "" THEN "unknown"
    ELSE session[1].user[1].githubUsername

\* route.ts:188-200 and 262-276: the columns written from the suggestion's
\* fields (which carry value_min and value_max, so that 174-182 takes them
\* as they are)
dealDataOf(id, fields) == [fields EXCEPT !.id = id]

auditEntry(action, entityType, entityId, user) ==
    [action |-> action, entity_type |-> entityType, entity_id |-> entityId,
     user |-> user]

\* route.ts:202-209, 281-288 and 345-352   prisma.suggestion.update
reviewed(table, sid, status, reviewer) ==
    [table EXCEPT ![sid] = [@ EXCEPT !.status = status,
                                     !.reviewed_by = <<reviewer>>]]

\* route.ts:143-375: what one request leaves in the Deal, Suggestion and
\* AuditLog tables and in deals.json, and the status of its answer
postResult(session, sid, action) ==
    LET same(status) == [db |-> db, suggestions |-> suggestions,
                         auditLog |-> auditLog, dealsJson |-> dealsJson,
                         status |-> status]
    IN
    IF ~isAdminSession(session) THEN same(401)
    ELSE IF action \notin {"approve", "reject"} THEN same(400)
    ELSE IF sid \notin DOMAIN suggestions THEN same(404)
    ELSE
    LET suggestion == suggestions[sid]
        reviewer == reviewerOf(session)
    IN
    IF action = "approve" /\ suggestion.type = "new" THEN
        LET newDeal == dealDataOf(nextDealId(db), suggestion.fields)
        IN  [db |-> Append(db, newDeal),
             suggestions |-> reviewed(suggestions, sid, "approved", reviewer),
             auditLog |-> auditLog \o
                <<auditEntry("suggestion_approved", "suggestion", sid, reviewer),
                  auditEntry("deal_created", "deal", newDeal.id, reviewer)>>,
             dealsJson |-> updateDealsJson(dealsJson, newDeal, TRUE),
             status |-> 200]
    ELSE IF action = "approve" THEN
        IF IsNull(suggestion.deal_id)
              \/ ~\E i \in 1..Len(db) : db[i].id = suggestion.deal_id[1]
        THEN same(500)
        ELSE
        LET updatedDeal == dealDataOf(suggestion.deal_id[1], suggestion.fields)
        IN  [db |-> [i \in 1..Len(db) |->
                        IF db[i].id = updatedDeal.id THEN updatedDeal ELSE db[i]],
             suggestions |-> reviewed(suggestions, sid, "approved", reviewer),
             auditLog |-> auditLog \o
                <<auditEntry("suggestion_approved", "suggestion", sid, reviewer),
                  auditEntry("deal_updated", "deal", updatedDeal.id, reviewer)>>,
             dealsJson |-> updateDealsJson(dealsJson, updatedDeal, FALSE),
             status |-> 200]
    ELSE
        [db |-> db,
         suggestions |-> reviewed(suggestions, sid, "rejected", reviewer),
         auditLog |-> Append(auditLog,
                auditEntry("suggestion_rejected", "suggestion", sid, reviewer)),
         dealsJson |-> dealsJson,
         status |-> 200]

\* Cap of the number of requests
MaxRequests == 2

requestCount == IF lastRequest = NoRequest THEN 0 ELSE lastRequest[1].n

\* route.ts:143-375   POST, with the session getServerSession finds, the id of
\* the path and the action of the body.  lastRequest records the request, the
\* status of the answer and the four stores before the request.
PostSuggestion(session, sid, action) ==
    /\ requestCount < MaxRequests
    /\ LET out == postResult(session, sid, action)
       IN  /\ db' = out.db
           /\ suggestions' = out.suggestions
           /\ auditLog' = out.auditLog
           /\ dealsJson' = out.dealsJson
           /\ lastRequest' = <<[n |-> requestCount + 1, session |-> session,
                                sid |-> sid, action |-> action,
                                status |-> out.status,
                                before |-> <<db, suggestions, auditLog,
                                             dealsJson>>]>>
    /\ UNCHANGED <<deals, filteredDeals, selectedNodes, searchQuery, filters,
                   stats, dealsFetch, statsFetch, effectPending, lastToggle,
                   lastOp, graph, changed>>
    /\ UNCHANGED filtersVars
    /\ UNCHANGED snapVars

----------------------------------------------------------------------------
(* Sample data *)

OpenAI == <<"O", "p", "e", "n", "A", "I">>

Google == <<"G", "o", "o", "g", "l", "e">>

Getty == <<"G", "e", "t", "t", "y">>

Reddit == <<"R", "e", "d", "d", "i", "t">>

openaiLower == <<"o", "p", "e", "n", "a", "i">>

Images == <<"I", "m", "a", "g", "e", "s">>

UGC == <<"U", "G", "C">>

News == <<"N", "e", "w", "s">>

CodeC == <<"C">>

CodeD == <<"D">>

RawUndisclosed == <<"U", "n", "d", "i", "s", "c", "l", "o", "s", "e", "d">>

Raw60m == <<"6", "0", "m">>

Raw20to50m == <<"2", "0", "-", "5", "0", "m">>

Raw400mPlus == <<"4", "0", "0", "m", "+">>

Raw0Plus == <<"0", "+">>

RawFractional == <<"1", "4", ".", "5", "-", "1", "5", ".", "5", "m">>

\* The two deals of the end-to-end scenario, a 20-50 million deal, two
\* open-ended deals (value_max null) of 400 and 0 million, and a 14.5-15.5
\* million deal of 2015.
DealGetty == Deal(1, OpenAI, Getty, 2023, Images, RawUndisclosed, Null, Null, <<CodeC>>)

DealReddit == Deal(2, Google, Reddit, 2024, UGC, Raw60m, Some(60 * Million), Some(60 * Million), <<CodeC>>)

DealNews == Deal(3, OpenAI, Reddit, 2020, News, Raw20to50m, Some(20 * Million), Some(50 * Million), <<>>)

DealOpenEnded == Deal(4, Google, Getty, 2016, UGC, Raw400mPlus, Some(400 * Million), Null, <<CodeC, CodeD>>)

DealZero == Deal(5, Google, OpenAI, 2025, Images, Raw0Plus, Some(0), Null, <<CodeD>>)

DealOld == Deal(6, Reddit, Getty, 2015, News, RawFractional, Some(14500000), Some(15500000), <<CodeD>>)

DealUniverse == {DealGetty, DealReddit, DealNews, DealOpenEnded, DealZero, DealOld}

MaxDeals == 2

\* Deal lists of at most MaxDeals deals with distinct ids
DealLists ==
    UNION {{l \in [1..n -> DealUniverse] :
               \A i, j \in 1..n : i # j => l[i].id # l[j].id} : n \in 0..MaxDeals}

YearRanges == {<<2016, 2025>>, <<2015, 2016>>}

ValueRanges ==
    {<<-1, 300>>, <<-1, 0>>, <<30, 40>>, <<60, 80>>, <<10, 15>>, <<0, 100>>,
     <<0, 0>>, <<75, 300>>}

TypeFilters == {<<>>, <<UGC>>, <<Images, News>>}

CodeFilters == {<<>>, <<CodeD>>, <<CodeC, CodeD>>}

FilterStates ==
    {[yearMin |-> y[1], yearMax |-> y[2], valueMin |-> v[1], valueMax |-> v[2],
      types |-> t, codes |-> c] :
        y \in YearRanges, v \in ValueRanges, t \in TypeFilters, c \in CodeFilters}

Selections == {{}, {OpenAI}, {Reddit, Google, openaiLower}}

Queries ==
    {<<>>, <<" ", " ">>, <<"o", "p", "e", "n", "a", "i">>,
     <<"O", "P", "E", "N", "A", "I">>, <<" ", "p", "e", "n", "A", " ">>,
     <<"D">>}

\* The Deal tables the server may hold
Datasets ==
    {<<>>, <<DealGetty, DealReddit>>, <<DealOpenEnded, DealNews>>}

\* Pointer positions on a slider's track, in pixels from its left edge: the
\* ends, the steps of the value slider and the midpoints between them
ClickPositions == {0, 1, 2, 77, 152, 227, 302, 377, 452, 527, 602}

\* Pointer positions during a drag, two of them outside the track
MovePositions == ClickPositions \cup {-10, 650}

\* Values of the value range inputs (min -1, max 300, step 1)
RangeValues == {-1, 0, 76, 150, 300}

\* Values of the year range inputs (min minYear, max maxYear, step 1); with
\* no year in the dataset the inputs have no valid range
RangeYears ==
    IF IsNull(stats) \/ yearsOf(stats[1]) = {} THEN {}
    ELSE minYearOf(stats[1])..maxYearOf(stats[1])

PageQueries == {<<>>, <<"o", "p", "e", "n", "a", "i">>, <<" ", "D", " ">>}

OrgA == <<"A">>

OrgB == <<"B">>

OrgC == <<"C">>

OrgAB == <<"A", "-", ">", "B">>

OrgBC == <<"B", "-", ">", "C">>

GraphDeal(id, aggregator, receiver) ==
    Deal(id, receiver, aggregator, <<"2", "0", "2", "4">>, UGC, RawUndisclosed,
         Null, Null, <<>>)

\* Deals for the graph: a repeated pair, its reverse, a deal of an
\* organization with itself and two pairs whose names contain "->"
GraphDealUniverse ==
    {GraphDeal(1, OrgA, OrgB), GraphDeal(2, OrgA, OrgB), GraphDeal(3, OrgB, OrgA),
     GraphDeal(4, OrgA, OrgA), GraphDeal(5, OrgAB, OrgC),
     GraphDeal(6, OrgA, OrgBC)}

MaxGraphDeals == 3

GraphLists ==
    {l \in UNION {[1..n -> GraphDealUniverse] : n \in 0..MaxGraphDeals} :
        \A i, j \in 1..Len(l) : i # j => l[i].id # l[j].id}

\* Sessions getServerSession can find: none, one without a user, a signed-in
\* user who is not an admin, and two admins (one without a GitHub name)
NoSession == Null

SessionNoUser == <<[user |-> Null]>>

SessionOf(name, admin) ==
    <<[user |-> <<[githubUsername |-> name, isAdmin |-> admin]>>]>>

Sessions ==
    {NoSession, SessionNoUser, SessionOf("visitor", FALSE),
     SessionOf("luisoala", TRUE), SessionOf("", TRUE)}

Suggestion(id, type, dealId, fields) ==
    [id |-> id, type |-> type, deal_id |-> dealId, fields |-> fields,
     status |-> "pending", reviewed_by |-> Null]

\* A new deal, an edit of deal 1 and an edit of a deal the table may not hold
SampleSuggestions ==
    <<Suggestion(1, "new", Null, DealNews),
      Suggestion(2, "edit", Some(1),
                 Deal(1, OpenAI, Getty, 2023, Images, Raw60m,
                      Some(60 * Million), Some(60 * Million), <<CodeC, CodeD>>)),
      Suggestion(3, "edit", Some(2), DealZero)>>

\* the ids of the path: the three suggestions and one the table does not hold
SuggestionIds == DOMAIN SampleSuggestions \cup {9}

Actions == {"approve", "reject", "delete"}

AdminDatasets == {<<>>, <<DealGetty>>, <<DealGetty, DealReddit>>}

SnapLimit == 350

\* Arguments of the snap functions: -10 .. SnapLimit in steps of one half
SnapInputs == (-20)..(2 * SnapLimit)

----------------------------------------------------------------------------
(* Specifications *)

\* The page after construction (page.tsx:27-42): both fetches are in flight and
\* the effects of the first render are scheduled.
Init ==
    /\ db \in Datasets
    /\ deals = <<>>
    /\ filteredDeals = <<>>
    /\ selectedNodes = {}
    /\ searchQuery = <<>>
    /\ filters = initialFilters
    /\ stats = Null
    /\ dealsFetch = "pending"
    /\ statsFetch = "pending"
    /\ effectPending = TRUE
    /\ lastToggle = NoToggle
    /\ graph = NoGraph
    /\ lastOp = NoOp
    /\ localFilters = filters
    /\ localIsFilters = TRUE
    /\ isInternalUpdateRef = FALSE
    /\ draggingSlider = Null
    /\ changed = homeDeps
    /\ snapValue = 0
    /\ snapResult = <<>>
    /\ suggestions = <<>>
    /\ auditLog = <<>>
    /\ dealsJson = <<>>
    /\ lastRequest = NoRequest

Next ==
    \/ DealsLoaded
    \/ StatsLoaded
    \/ FlushEffects
    \/ \E node \in nodeIdsOf(deals) : OnNodeToggle(node)
    \/ \E q \in PageQueries : SetSearch(q)
    \/ \E f \in filterInputs : OnFiltersChange(f)
    \/ ResetAllFilters

Spec == Init /\ [][Next]_vars

\* The page with the sliders and range inputs of the filter panel as its
\* only controls, next to the reset
NextControls ==
    \/ DealsLoaded
    \/ StatsLoaded
    \/ FlushEffects
    \/ \E slider \in {"year", "value"}, x \in ClickPositions :
          SliderMouseDown(slider, x)
    \/ \E x \in MovePositions : SliderMouseMove(x)
    \/ SliderMouseUp
    \/ \E field \in {"yearMin", "yearMax"}, val \in RangeYears :
          RangeInputChange(field, val)
    \/ \E field \in {"valueMin", "valueMax"}, val \in RangeValues :
          RangeInputChange(field, val)
    \/ ResetAllFilters

SpecControls == Init /\ [][NextControls]_vars

\* The page's load and its reset, on deal tables drawn from a bounded set
InitLoad ==
    /\ db \in DealLists
    /\ deals = <<>>
    /\ filteredDeals = <<>>
    /\ selectedNodes = {}
    /\ searchQuery = <<>>
    /\ filters = initialFilters
    /\ stats = Null
    /\ dealsFetch = "pending"
    /\ statsFetch = "pending"
    /\ effectPending = TRUE
    /\ lastToggle = NoToggle
    /\ graph = NoGraph
    /\ lastOp = NoOp
    /\ localFilters = filters
    /\ localIsFilters = TRUE
    /\ isInternalUpdateRef = FALSE
    /\ draggingSlider = Null
    /\ changed = homeDeps
    /\ snapValue = 0
    /\ snapResult = <<>>
    /\ suggestions = <<>>
    /\ auditLog = <<>>
    /\ dealsJson = <<>>
    /\ lastRequest = NoRequest

NextLoad ==
    \/ DealsLoaded
    \/ StatsLoaded
    \/ FlushEffects
    \/ ResetAllFilters

SpecLoad == InitLoad /\ [][NextLoad]_vars

\* applyFilters on inputs drawn from bounded sets
InitFilter ==
    /\ db = <<>>
    /\ deals \in DealLists
    /\ filteredDeals = <<>>
    /\ selectedNodes \in Selections
    /\ searchQuery \in Queries
    /\ filters \in FilterStates
    /\ stats = Null
    /\ dealsFetch = "done"
    /\ statsFetch = "done"
    /\ effectPending = TRUE
    /\ lastToggle = NoToggle
    /\ graph = NoGraph
    /\ lastOp = NoOp
    /\ localFilters = filters
    /\ localIsFilters = TRUE
    /\ isInternalUpdateRef = FALSE
    /\ draggingSlider = Null
    /\ changed = homeDeps
    /\ snapValue = 0
    /\ snapResult = <<>>
    /\ suggestions = <<>>
    /\ auditLog = <<>>
    /\ dealsJson = <<>>
    /\ lastRequest = NoRequest

NextFilter == ApplyFiltersEffect

SpecFilter == InitFilter /\ [][NextFilter]_vars

\* The snap functions applied to snapValue
SnapStep ==
    /\ snapResult = <<>>
    /\ snapResult' = <<[page |-> snapToValueStep(snapValue),
                        slider |-> snapToStep(snapValue)]>>
    /\ UNCHANGED snapValue
    /\ UNCHANGED pageVars
    /\ UNCHANGED adminVars

InitSnap ==
    /\ snapValue \in SnapInputs
    /\ snapResult = <<>>
    /\ suggestions = <<>>
    /\ auditLog = <<>>
    /\ dealsJson = <<>>
    /\ lastRequest = NoRequest
    /\ db = <<>>
    /\ deals = <<>>
    /\ filteredDeals = <<>>
    /\ selectedNodes = {}
    /\ searchQuery = <<>>
    /\ filters = initialFilters
    /\ stats = Null
    /\ dealsFetch = "done"
    /\ statsFetch = "done"
    /\ effectPending = FALSE
    /\ lastToggle = NoToggle
    /\ graph = NoGraph
    /\ lastOp = NoOp
    /\ localFilters = filters
    /\ localIsFilters = TRUE
    /\ isInternalUpdateRef = FALSE
    /\ draggingSlider = Null
    /\ changed = {}

NextSnap == SnapStep

SpecSnap == InitSnap /\ [][NextSnap]_vars

\* NetworkGraph.tsx:32-351: the layout effect on its own
LayoutEffect ==
    /\ rendered
    /\ graph.layoutRuns = 0
    /\ graph' = layoutOf(graph, deals, selectedNodes)
    /\ UNCHANGED <<deals, filteredDeals, selectedNodes, searchQuery, filters,
                   stats, db, dealsFetch, statsFetch, effectPending, lastToggle,
                   lastOp, changed>>
    /\ UNCHANGED filtersVars
    /\ UNCHANGED snapVars
    /\ UNCHANGED adminVars

\* The graph model built from deal lists drawn from a bounded set
InitGraph ==
    /\ deals \in GraphLists
    /\ db = deals
    /\ stats = Some(statsOf(deals))
    /\ filters = initialFilters
    /\ graph = NoGraph
    /\ localFilters = filters
    /\ localIsFilters = TRUE
    /\ isInternalUpdateRef = FALSE
    /\ draggingSlider = Null
    /\ changed = {}
    /\ filteredDeals = deals
    /\ selectedNodes \in {{}, {OrgA}}
    /\ searchQuery = <<>>
    /\ dealsFetch = "done"
    /\ statsFetch = "done"
    /\ effectPending = FALSE
    /\ lastToggle = NoToggle
    /\ lastOp = NoOp
    /\ snapValue = 0
    /\ snapResult = <<>>
    /\ suggestions = <<>>
    /\ auditLog = <<>>
    /\ dealsJson = <<>>
    /\ lastRequest = NoRequest

NextGraph == LayoutEffect

SpecGraph == InitGraph /\ [][NextGraph]_vars

\* The moderation endpoint on a Deal table and a deals.json that hold the same
\* records
InitAdmin ==
    /\ db \in AdminDatasets
    /\ dealsJson = db
    /\ suggestions = SampleSuggestions
    /\ auditLog = <<>>
    /\ lastRequest = NoRequest
    /\ deals = <<>>
    /\ filteredDeals = <<>>
    /\ selectedNodes = {}
    /\ searchQuery = <<>>
    /\ filters = initialFilters
    /\ stats = Null
    /\ dealsFetch = "done"
    /\ statsFetch = "done"
    /\ effectPending = FALSE
    /\ lastToggle = NoToggle
    /\ graph = NoGraph
    /\ lastOp = NoOp
    /\ localFilters = filters
    /\ localIsFilters = TRUE
    /\ isInternalUpdateRef = FALSE
    /\ draggingSlider = Null
    /\ changed = {}
    /\ snapValue = 0
    /\ snapResult = <<>>

NextAdmin ==
    \E session \in Sessions, sid \in SuggestionIds, action \in Actions :
        PostSuggestion(session, sid, action)

SpecAdmin == InitAdmin /\ [][NextAdmin]_vars

----------------------------------------------------------------------------
(* The sub-predicates of the Filter State, Selection Set and search query of *)
(* the current state, as the specification words them                        *)

Kept(d) == \E i \in 1..Len(filteredDeals) : filteredDeals[i] = d

Listed(d) == \E i \in 1..Len(deals) : deals[i] = d

PassesNode(d) ==
    \/ selectedNodes = {}
    \/ d.data_receiver \in selectedNodes
    \/ d.data_aggregator \in selectedNodes

PassesYear(d) == filters.yearMin <= d.date /\ d.date <= filters.yearMax

PassesValue(d) == valueTest(d, filters)

PassesType(d) ==
    filters.types = <<>> \/ \E i \in 1..Len(filters.types) : filters.types[i] = d.type

PassesCodes(d) ==
    \/ filters.codes = <<>>
    \/ \E i \in 1..Len(d.codes) : \E j \in 1..Len(filters.codes) :
          d.codes[i] = filters.codes[j]

\* q is a substring of one of the lower-cased searched fields of d
MatchesLowered(d, q) ==
    \/ StrIncludes(toLowerCase(d.data_receiver), q)
    \/ StrIncludes(toLowerCase(d.data_aggregator), q)
    \/ StrIncludes(toLowerCase(d.type), q)
    \/ StrIncludes(toLowerCase(d.value_raw), q)
    \/ \E i \in 1..Len(d.codes) : StrIncludes(toLowerCase(d.codes[i]), q)

OnlyWhitespace(q) == \A i \in 1..Len(q) : IsSpace(q[i])

PassesSearch(d) ==
    OnlyWhitespace(searchQuery) \/ MatchesLowered(d, trim(toLowerCase(searchQuery)))

PassesAll(d) ==
    /\ PassesNode(d)
    /\ PassesYear(d)
    /\ PassesValue(d)
    /\ PassesType(d)
    /\ PassesCodes(d)
    /\ PassesSearch(d)

\* The set of deals of a list
DealsOf(list) == {list[i] : i \in 1..Len(list)}

\* The position of a deal in the full list
PositionOf(d) == CHOOSE i \in 1..Len(deals) : deals[i] = d

----------------------------------------------------------------------------
(* Claims about applyFilters, checked under SpecFilter *)

C2_Subsequence ==
    ~effectPending =>
        /\ \A i \in 1..Len(filteredDeals) : Listed(filteredDeals[i])
        /\ \A i, j \in 1..Len(filteredDeals) :
              i < j => /\ filteredDeals[i] # filteredDeals[j]
                       /\ PositionOf(filteredDeals[i]) < PositionOf(filteredDeals[j])

\* C2 witness: two deals are kept under a non-empty selection, one of them
\* touching two selected organizations.
C2_Witness ==
    /\ ~effectPending
    /\ Len(filteredDeals) = 2
    /\ selectedNodes # {}
    /\ \E i \in 1..2 : /\ filteredDeals[i].data_receiver \in selectedNodes
                       /\ filteredDeals[i].data_aggregator \in selectedNodes

\* C3: a deal passes the node-selection predicate iff the Selection Set is
\* empty or holds its receiver or its aggregator; with a non-empty selection
\* every kept deal touches a selected organization.
C3_NodeSelection ==
    ~effectPending =>
        /\ selectedNodes # {} =>
              \A i \in 1..Len(filteredDeals) :
                  \/ filteredDeals[i].data_receiver \in selectedNodes
                  \/ filteredDeals[i].data_aggregator \in selectedNodes
        /\ \A d \in DealsOf(deals) :
              (PassesYear(d) /\ PassesValue(d) /\ PassesType(d)
                 /\ PassesCodes(d) /\ PassesSearch(d))
              => (Kept(d) <=> PassesNode(d))

\* C3 witness: with "OpenAI" selected, of the two deals of the end-to-end
\* scenario only the first is kept.
C3_Witness ==
    /\ ~effectPending
    /\ selectedNodes = {OpenAI}
    /\ deals = <<DealGetty, DealReddit>>
    /\ filteredDeals = <<DealGetty>>

\* The closed intervals [lo1, hi1] and [lo2, hi2] meet
Intersect(lo1, hi1, lo2, hi2) == lo1 <= hi2 /\ lo2 <= hi1

BothBoundsSet(d) ==
    /\ ~IsNull(d.value_min)
    /\ ~IsNull(d.value_max)
    /\ d.value_min[1] <= d.value_max[1]

PassesAllButValue(d) ==
    PassesNode(d) /\ PassesYear(d) /\ PassesType(d) /\ PassesCodes(d) /\ PassesSearch(d)

PassesAllButSearch(d) ==
    PassesNode(d) /\ PassesYear(d) /\ PassesValue(d) /\ PassesType(d) /\ PassesCodes(d)

\* C4: a deal with both bounds set, value_min <= value_max, under a filter with
\* max(valueMin, 0) <= valueMax, passes the value predicate iff
\* [value_min, value_max] meets [max(valueMin, 0), valueMax] millions.
C4_ClosedIntervalOverlap ==
    ~effectPending =>
        \A d \in DealsOf(deals) :
            (BothBoundsSet(d) /\ PassesAllButValue(d)
               /\ Max(filters.valueMin, 0) <= filters.valueMax)
            => (Kept(d) <=> Intersect(d.value_min[1], d.value_max[1],
                                      Max(filters.valueMin, 0) * Million,
                                      filters.valueMax * Million))

\* C4 witness: the 20-50 million deal is kept by the filter [30, 40], which
\* holds neither of its bounds.
C4_Witness ==
    /\ ~effectPending
    /\ filters.valueMin = 30 /\ filters.valueMax = 40
    /\ Kept(DealNews)

\* The three-way overlap test of the degenerate interval [m, m] against
\* [filterMin, valueMax], m in dollars
PointOverlap(m, f) ==
    LET filterMin == Max(f.valueMin, 0) * Million
        filterMax == f.valueMax * Million
    IN  \/ (m >= filterMin /\ m <= filterMax)
        \/ (m <= filterMin /\ m >= filterMax)

\* C5: an open-ended deal (value_min set, value_max null) is decided as the
\* disclosed interval [dealMin, dealMin] with dealMin = value_min / 1,000,000.
C5_OpenEndedUsesDealMin ==
    ~effectPending =>
        \A d \in DealsOf(deals) :
            (~IsNull(d.value_min) /\ IsNull(d.value_max) /\ PassesAllButValue(d))
            => (Kept(d) <=> PointOverlap(d.value_min[1], filters))

\* C6: an undisclosed deal (both bounds null) passes the value predicate iff
\* filters.valueMin < 0, whatever filters.valueMax is.
C6_UndisclosedExclusivity ==
    ~effectPending =>
        \A d \in DealsOf(deals) :
            (IsNull(d.value_min) /\ IsNull(d.value_max) /\ PassesAllButValue(d))
            => (Kept(d) <=> filters.valueMin < 0)

\* C6 witness: an undisclosed deal is kept with valueMin = -1 and valueMax = 0.
C6_Witness ==
    /\ ~effectPending
    /\ filters.valueMin < 0 /\ filters.valueMax = 0
    /\ Kept(DealGetty)

\* C7: the type predicate passes iff filters.types is empty or holds deal.type,
\* the codes predicate iff filters.codes is empty or holds one of the deal's
\* codes; with both empty every deal passes both.
C7_EmptyMeansAll ==
    ~effectPending =>
        \A d \in DealsOf(deals) :
            (PassesNode(d) /\ PassesYear(d) /\ PassesValue(d) /\ PassesSearch(d))
            => /\ Kept(d) <=> (PassesType(d) /\ PassesCodes(d))
               /\ (filters.types = <<>> /\ filters.codes = <<>>) => Kept(d)

\* C7 witness: a deal without codes is kept with types = [] and codes = [].
C7_Witness ==
    /\ ~effectPending
    /\ filters.types = <<>> /\ filters.codes = <<>>
    /\ \E d \in DealsOf(deals) : d.codes = <<>> /\ Kept(d)

\* C8 as stated: unless the query is empty or whitespace, a deal passes iff
\* the lower-cased query is a substring of a lower-cased searched field.
C8_LoweredQueryIsSubstring ==
    ~effectPending =>
        \A d \in DealsOf(deals) :
            PassesAllButSearch(d)
            => (Kept(d) <=> (OnlyWhitespace(searchQuery)
                               \/ MatchesLowered(d, toLowerCase(searchQuery))))

\* C8 amended: unless the query is empty or whitespace, a deal passes iff the
\* lower-cased query with its leading and trailing whitespace removed is a
\* substring of a lower-cased searched field.
C8_TrimmedLoweredQueryIsSubstring ==
    ~effectPending =>
        \A d \in DealsOf(deals) :
            PassesAllButSearch(d)
            => (Kept(d) <=> (OnlyWhitespace(searchQuery)
                               \/ MatchesLowered(d, trim(toLowerCase(searchQuery)))))

\* C8 witness: receiver "OpenAI" is kept for the query "OPENAI".
C8_Witness ==
    /\ ~effectPending
    /\ searchQuery = <<"O", "P", "E", "N", "A", "I">>
    /\ \E d \in DealsOf(deals) :
          /\ d.data_receiver = OpenAI
          /\ d.data_aggregator = Getty
          /\ Kept(d)

----------------------------------------------------------------------------
(* Claims about the snap functions, checked under SpecSnap *)

StepSet == {steps[i] : i \in 1..Len(steps)}

\* r is the step nearest to the value whose double is value2, the lower one
\* when two steps are equally near
NearestLowerStep(value2, r) ==
    /\ r \in StepSet
    /\ \A s \in StepSet :
          \/ Abs(value2 - 2 * r) < Abs(value2 - 2 * s)
          \/ (Abs(value2 - 2 * r) = Abs(value2 - 2 * s) /\ r <= s)

SnapContract(value2, r) ==
    /\ value2 < 0 => r = -1
    /\ (0 < value2 /\ value2 < 75) => r = 75
    /\ value2 >= 0 => NearestLowerStep(value2, r)
    /\ value2 = 225 => r = 75
    /\ value2 = 375 => r = 150
    /\ value2 = 525 => r = 225

\* C9: with steps [75, 150, 225, 300] both snap functions return -1 for a
\* negative input, 75 for an input strictly between 0 and 37.5, and otherwise
\* the nearest step, the lower one on a tie (112.5 -> 75, 187.5 -> 150,
\* 262.5 -> 225); a non-negative input always yields one of the four steps.
C9_SnapContract ==
    snapResult # <<>> =>
        /\ SnapContract(snapValue, snapResult[1].page)
        /\ SnapContract(snapValue, snapResult[1].slider)

\* C9 witness: 112.5, the midpoint of 75 and 150, was snapped to 75.
C9_Witness ==
    /\ snapValue = 225
    /\ snapResult = <<[page |-> 75, slider |-> 75]>>

----------------------------------------------------------------------------
(* Claims about the page, checked under Spec *)

\* C10: toggleNode(name) adds name if absent and removes it if present and
\* leaves the other members alone; after two toggles of the same node in a row
\* the Selection Set has its original members and, once the effect has run,
\* the filtered list is the one before the pair.
C10_ToggleTwiceRestores ==
    lastToggle # NoToggle =>
        LET t == lastToggle[1] IN
        /\ t.count = 1 =>
              /\ (t.node \in selectedNodes) <=> (t.node \notin t.selected)
              /\ \A n \in (selectedNodes \cup t.selected) \ {t.node} :
                    (n \in selectedNodes) <=> (n \in t.selected)
        /\ t.count = 2 =>
              /\ selectedNodes = t.selected
              /\ ~effectPending => filteredDeals = t.filtered

\* C10 witness: a node that was selected has been toggled twice, the effect
\* has run and the selection hides a deal.
C10_Witness ==
    /\ lastToggle # NoToggle
    /\ lastToggle[1].count = 2
    /\ lastToggle[1].node \in selectedNodes
    /\ ~effectPending
    /\ Len(filteredDeals) < Len(deals)
    /\ Len(filteredDeals) > 0

\* C11: resetAll sets, in one step, valueMin to -1, valueMax to the default
\* (the step nearest to the statistics' maximum capped at 300), types and codes
\* to empty, the search query to empty and the Selection Set to empty; a second
\* resetAll right after leaves all three exactly as the first call left them.
C11_ResetAllDefaults ==
    lastOp.op = "resetAll" =>
        /\ filters.valueMin = -1
        /\ SnapContract(rawValueMax2(stats[1]), filters.valueMax)
        /\ filters.types = <<>>
        /\ filters.codes = <<>>
        /\ searchQuery = <<>>
        /\ selectedNodes = {}
        /\ lastOp.resets = 2 =>
              <<filters, searchQuery, selectedNodes>> = lastOp.after

\* C11 witness: resetAll has been called twice in a row on a page that has
\* loaded deals, and the effects of the second call have run.
C11_Witness ==
    /\ lastOp.op = "resetAll"
    /\ lastOp.resets = 2
    /\ ~effectPending
    /\ Len(deals) > 0

\* the graph without its colours: the node/edge model and the layout run that
\* positioned the nodes
LayoutPart(g) == [nodes |-> g.nodes, links |-> g.links, layoutRuns |-> g.layoutRuns]

C15_ExactlyOneRecomputation ==
    (/\ lastOp.op \in {"toggleNode", "updateFilters", "resetAll", "setSearch"}
     /\ lastOp.changes)
        => /\ lastOp.runs <= 1
           /\ ~effectPending => lastOp.runs = 1

\* C15 witness: resetAll was called, the Filters component has mirrored the
\* new Filter State into its local copy and handed it back to the page, and
\* all effects have run.
C15_Witness ==
    /\ lastOp.op = "resetAll"
    /\ ~effectPending
    /\ lastOp.runs = 1
    /\ localIsFilters
    /\ isInternalUpdateRef

\* the years occurring in the dataset
YearsOf(table) == {table[i].date : i \in 1..Len(table)}

\* C18: in the default Filter State (before any filter control is used and
\* after resetAll) of a page whose dataset is not empty, yearMin is the
\* smallest and yearMax the largest year occurring in the dataset.
C18_DefaultYearsAreDatasetRange ==
    (/\ lastOp.op \in {"none", "dealsLoaded", "statsLoaded", "resetAll"}
     /\ db # <<>>)
        => /\ filters.yearMin \in YearsOf(db)
           /\ filters.yearMax \in YearsOf(db)
           /\ \A y \in YearsOf(db) : filters.yearMin <= y /\ y <= filters.yearMax

\* the predicate engine applied to the current deal list, Selection Set,
\* Filter State and search query
Recomputed == applyFilters(deals, selectedNodes, filters, searchQuery)

\* C19: once all pending effects have run, the stored filtered list is the
\* predicate engine applied to the current deal list, Filter State, Selection
\* Set and search query.
C19_NoMissedUpdate == ~effectPending => filteredDeals = Recomputed

\* C19 witness: a query was typed that changed the search query, the effects
\* have run and the list is narrowed but not empty.
C19_Witness ==
    /\ lastOp.op = "setSearch"
    /\ lastOp.changes
    /\ ~effectPending
    /\ Len(filteredDeals) < Len(deals)
    /\ Len(filteredDeals) > 0

\* C20: in every state in which the table is rendered, the list given to it
\* is the predicate engine applied to the deals, Filter State, Selection Set
\* and search query of that state.
C20_NoStaleRender == rendered => filteredDeals = Recomputed

----------------------------------------------------------------------------
(* Claims about the graph model, checked under SpecGraph *)

\* the ordered pairs (aggregator, receiver) occurring in the deals
PairsOf(list) ==
    {<<list[i].data_aggregator, list[i].data_receiver>> : i \in 1..Len(list)}

DealsWithPair(list, pair) ==
    Cardinality({i \in 1..Len(list) :
        <<list[i].data_aggregator, list[i].data_receiver>> = pair})

\* the name of the node a link end refers to
NodeIdAt(index) ==
    graph.nodes[CHOOSE i \in 1..Len(graph.nodes) :
                    graph.nodes[i].index = index].id

\* the links from the node named pair[1] to the node named pair[2]
EdgesOfPair(pair) ==
    {k \in 1..Len(graph.links) :
        /\ NodeIdAt(graph.links[k].source) = pair[1]
        /\ NodeIdAt(graph.links[k].target) = pair[2]}

\* C12: once the layout has run, every distinct ordered pair (aggregator,
\* receiver) of the deals has exactly one edge, directed from the aggregator to
\* the receiver, whose count is the number of deals with exactly that pair, and
\* there are as many edges as pairs (no parallel edges, no shared edge).
C12_OneEdgePerPair ==
    graph.layoutRuns > 0 =>
        /\ \A pair \in PairsOf(deals) :
              /\ Cardinality(EdgesOfPair(pair)) = 1
              /\ \A k \in EdgesOfPair(pair) :
                    graph.links[k].count = DealsWithPair(deals, pair)
        /\ Len(graph.links) = Cardinality(PairsOf(deals))

DealsOfOrg(list, name) ==
    Cardinality({i \in 1..Len(list) :
        list[i].data_receiver = name \/ list[i].data_aggregator = name})

\* C13: once the layout has run, the nodes are exactly the distinct names that
\* occur as receiver or aggregator of a deal, one node per name, and a node's
\* count is the number of deals in which its organization is the receiver or
\* the aggregator.
C13_NodesAndCounts ==
    graph.layoutRuns > 0 =>
        /\ {graph.nodes[i].id : i \in 1..Len(graph.nodes)} = nodeIdsOf(deals)
        /\ Len(graph.nodes) = Cardinality(nodeIdsOf(deals))
        /\ \A i \in 1..Len(graph.nodes) :
              graph.nodes[i].count = DealsOfOrg(deals, graph.nodes[i].id)

----------------------------------------------------------------------------
(* Claims about POST /api/suggestions/[id], checked under SpecAdmin *)

\* a request's session without an admin: none, one without a user, or one whose
\* user is not an admin
WithoutAdmin(session) ==
    \/ session = NoSession
    \/ session = SessionNoUser
    \/ \E name \in {"visitor", "luisoala", ""} : session = SessionOf(name, FALSE)

\* C16: a request without a session, or with a session whose user is not an
\* admin, is answered with 401 and leaves the Deal table, the Suggestion
\* table, the AuditLog table and deals.json as they were.
C16_AdminOnly ==
    (lastRequest # NoRequest /\ WithoutAdmin(lastRequest[1].session)) =>
        /\ lastRequest[1].status = 401
        /\ <<db, suggestions, auditLog, dealsJson>> = lastRequest[1].before

\* C16 witness: a signed-in user who is not an admin asked to approve an
\* existing pending suggestion, after an admin's request had changed the
\* tables.
C16_Witness ==
    /\ lastRequest # NoRequest
    /\ lastRequest[1].session = SessionOf("visitor", FALSE)
    /\ lastRequest[1].action = "approve"
    /\ lastRequest[1].sid \in DOMAIN suggestions
    /\ suggestions[lastRequest[1].sid].status = "pending"
    /\ auditLog # <<>>

----------------------------------------------------------------------------
(* Claims about the filter panel's sliders, checked under SpecControls *)

\* a <= b as JavaScript evaluates it: false when a or b is not a number
jsLE(a, b) == a # NaN /\ b # NaN /\ a <= b

\* C21: in every reachable state, whatever the slider presses, drags,
\* range-input changes and resets and the load of the statistics, the Filter
\* State has yearMin <= yearMax and valueMin <= valueMax.
C21_BoundsOrdered ==
    /\ jsLE(filters.yearMin, filters.yearMax)
    /\ filters.valueMin <= filters.valueMax

\* The positions of the value slider
ValueSteps == {-1} \cup StepSet

\* C22: once the statistics have loaded, valueMin and valueMax of the Filter
\* State are each one of -1, 75, 150, 225 and 300, whatever the value-slider
\* presses, drags, range-input changes and resets.
C22_ValueBoundsOnSteps ==
    rendered => filters.valueMin \in ValueSteps /\ filters.valueMax \in ValueSteps

----------------------------------------------------------------------------
(* Further claims about the page, checked under Spec *)

\* C23: applyFilters and the graph engine, which run as passive effects, never
\* modify the deal list, the Filter State, the Selection Set or the search
\* query; the deal list changes only when the deals arrive, the Selection Set
\* only by toggleNode and resetAll, the search query only by setSearch and
\* resetAll, and the Filter State only by the filter update callback (the
\* panel handing over its local copy), resetAll and the load of the statistics.
C23_SingleWriter ==
    [][/\ deals' # deals => ~effectPending /\ lastOp'.op = "dealsLoaded"
       /\ selectedNodes' # selectedNodes =>
            ~effectPending /\ lastOp'.op \in {"toggleNode", "resetAll"}
       /\ searchQuery' # searchQuery =>
            ~effectPending /\ lastOp'.op \in {"setSearch", "resetAll"}
       /\ filters' # filters =>
            \/ ~effectPending /\ lastOp'.op \in {"statsLoaded", "resetAll"}
            \/ /\ effectPending
               /\ "localFilters" \in changed
               /\ filters' = localFilters]_vars

\* applyFilters has removed a deal from the list shown and the graph engine
\* has laid out the graph, after a handler call
C23_Witness ==
    /\ ~effectPending
    /\ lastOp.op = "toggleNode"
    /\ lastOp.runs = 1
    /\ graph.layoutRuns >= 1
    /\ Len(filteredDeals) < Len(deals)

\* C24: with an empty dataset the statistics are empty (no counts, totalDeals
\* 0, valueRange.max 0), the deal list and the filtered list are empty
\* whatever the Filter State, Selection Set and search query, and the graph
\* has no node and no edge, through the load, filtering, graph construction
\* and resetAll.
C24_EmptyDataset ==
    db = <<>> =>
        /\ deals = <<>>
        /\ filteredDeals = <<>>
        /\ graph.nodes = <<>>
        /\ graph.links = <<>>
        /\ rendered =>
              /\ DOMAIN stats[1].yearCounts = {}
              /\ DOMAIN stats[1].typeCounts = {}
              /\ DOMAIN stats[1].codeCounts = {}
              /\ stats[1].totalDeals = 0
              /\ stats[1].valueRange.maxDollars = 0
        /\ lastOp.op = "resetAll" => filters = resetFilters(stats)

\* the empty dataset has been loaded, filtered and laid out, and resetAll
\* has been called after a search
C24_Witness ==
    /\ db = <<>>
    /\ dealsFetch = "done"
    /\ rendered
    /\ ~effectPending
    /\ graph.layoutRuns >= 1
    /\ lastOp.op = "resetAll"
    /\ lastOp.runs >= 1

\* the Filter States a type or code button makes of the page's Filter State
ControlUpdatesOfFilters ==
    {toggleType(filters, t) : t \in DOMAIN stats[1].typeCounts}
        \cup {toggleCode(filters, c) : c \in DOMAIN stats[1].codeCounts}

\* C28: the synchronisation of the panel's local copy with the page's Filter
\* State ends after at most two rounds of effects; whenever no effect is
\* pending the two are equal, so after resetAll the local copy holds the
\* reset values; and a filter control then changes the page's current Filter
\* State, not a stale copy of it.
C28_LocalCopyInSync ==
    /\ [](lastOp.flushes <= 2)
    /\ []((rendered /\ ~effectPending) => localFilters = filters)
    /\ []((lastOp.op = "resetAll" /\ ~effectPending)
            => localFilters = resetFilters(stats))
    /\ [][(rendered /\ ~effectPending /\ localFilters' # localFilters)
            => localFilters' \in ControlUpdatesOfFilters]_vars

\* resetAll has been called, the sync-in effect has stored the new Filter
\* State as the local copy and the second round of effects has run
C28_Witness ==
    /\ lastOp.op = "resetAll"
    /\ ~effectPending
    /\ localFilters = resetFilters(stats)
    /\ lastOp.graph = graph
    /\ lastOp.flushes = 2

\* the Filter State the load leaves
LoadedFilters ==
    [yearMin |-> 2016, yearMax |-> 2025, valueMin |-> -1,
     valueMax |-> snappedValueMaxOf(Some(statsOf(db))),
     types |-> <<>>, codes |-> <<>>]

\* C29: the deals and the statistics may arrive in either order: once both
\* have arrived and the effects have run, with no handler of the user
\* interface called, the deal list, the statistics, the Filter State
\* (valueMin -1, valueMax the snapped default) and the filtered list are
\* those determined by the dataset; and before the statistics arrive no
\* filter, selection, search or reset operation has been called.
C29_LoadOrderIndependent ==
    /\ (/\ dealsFetch = "done"
        /\ statsFetch = "done"
        /\ ~effectPending
        /\ ~lastOp.user)
          => /\ deals = orderByDateDesc(db)
             /\ stats = Some(statsOf(db))
             /\ filters = LoadedFilters
             /\ filteredDeals = applyFilters(deals, {}, LoadedFilters, <<>>)
             /\ selectedNodes = {}
             /\ searchQuery = <<>>
    /\ IsNull(stats)
          => /\ ~lastOp.user
             /\ selectedNodes = {}
             /\ searchQuery = <<>>
             /\ filters = initialFilters

\* the statistics arrived first and the deals second, the effects have run
\* and the list shown is not empty
C29_Witness ==
    /\ lastOp.op = "dealsLoaded"
    /\ statsFetch = "done"
    /\ ~effectPending
    /\ ~lastOp.user
    /\ filteredDeals # <<>>

----------------------------------------------------------------------------
(* A further claim about the graph, checked under SpecGraph *)

NodeIds == {graph.nodes[i].id : i \in 1..Len(graph.nodes)}

NodeIndices == {graph.nodes[i].index : i \in 1..Len(graph.nodes)}

\* the deals one of whose ends is not the id of a node
UnresolvedDeals ==
    {i \in 1..Len(deals) :
        deals[i].data_aggregator \notin NodeIds
            \/ deals[i].data_receiver \notin NodeIds}

----------------------------------------------------------------------------
(* Claims about the statistics and the default Filter State, checked under
   SpecLoad *)

\* 1.1 * maxDollars / 1000000 >= bound / 1000000, for amounts that are
\* multiples of 100000 dollars as those of the sample deals are
BufferedMaxCovers(st, bound) ==
    11 * (st.valueRange.maxDollars \div 100000) >= 10 * (bound \div 100000)

\* C26: the statistics' valueRange.max is never smaller than value_min or
\* value_max, in millions, of any deal that has that bound set, and it is 0
\* when no deal has a disclosed value.
C26_ValueRangeCoversBounds ==
    rendered =>
        /\ \A i \in 1..Len(db) :
              /\ ~IsNull(db[i].value_min) =>
                    BufferedMaxCovers(stats[1], db[i].value_min[1])
              /\ ~IsNull(db[i].value_max) =>
                    BufferedMaxCovers(stats[1], db[i].value_max[1])
        /\ (\A i \in 1..Len(db) :
                IsNull(db[i].value_min) /\ IsNull(db[i].value_max))
              => stats[1].valueRange.maxDollars = 0

\* C27: in the default state, that is after both fetches with no handler
\* called or right after resetAll, once the effects have run, every deal of
\* the dataset is in the filtered list, whatever its year and values.
C27_DefaultsRestrictNothing ==
    (/\ dealsFetch = "done"
     /\ statsFetch = "done"
     /\ ~effectPending
     /\ lastOp.op \in {"dealsLoaded", "statsLoaded", "resetAll"})
        => \A i \in 1..Len(db) : Kept(db[i])

----------------------------------------------------------------------------
(* A further claim about POST /api/suggestions/[id], checked under SpecAdmin *)

\* C30: a suggestion is processed at most once: an approve or reject request
\* for a suggestion whose status is already 'approved' or 'rejected' changes
\* no Deal and no Suggestion and writes no AuditLog entry, so that approving
\* a 'new' suggestion twice creates no second Deal and an approved suggestion
\* never becomes rejected, nor a rejected one approved.
C30_ProcessedAtMostOnce ==
    (/\ lastRequest # NoRequest
     /\ lastRequest[1].action \in {"approve", "reject"}
     /\ lastRequest[1].sid \in DOMAIN lastRequest[1].before[2]
     /\ lastRequest[1].before[2][lastRequest[1].sid].status
            \in {"approved", "rejected"})
        => /\ db = lastRequest[1].before[1]
           /\ suggestions = lastRequest[1].before[2]
           /\ auditLog = lastRequest[1].before[3]

====
